---- MODULE Spec2Model ----
(***************************************************************************)
(* nix_csv_parser.py: one run of the converter, from the argument list to  *)
(* process exit.  Text is modelled as a sequence of one-character strings, *)
(* so that the string operations of the script (slicing, `in', split,      *)
(* strip, lower, isdigit, int, bytes.fromhex, %-formatting) are computed   *)
(* and not assumed.                                                        *)
(***************************************************************************)
EXTENDS Integers, Sequences, FiniteSets, TLC

VARIABLES
    pc,          \* position in main(): start, parsed, extracted, sorted, output, exited
    argv,        \* sys.argv[1:]
    clipboard,   \* the text pyperclip holds
    clip_start,  \* the clipboard text when the process started
    files,       \* the file system: a set of <<path, text>>
    mode,        \* CSVParser.mode
    csv_file,    \* CSVParser.csv_file
    file,        \* CSVParser.file (set at line 220 only)
    sort_type,   \* CSVParser.sort_type
    wait,        \* CSVParser.wait
    swatches,    \* CSVParser.swatches
    console,     \* what has been printed, in order
    exit_code,   \* the process exit status, NoExit while it runs
    exc,         \* the uncaught exception that ended the run, "none" otherwise
    slept,       \* seconds slept by exit_wait
    clip_reads,  \* calls of pyperclip.paste()
    clip_writes, \* calls of pyperclip.copy()
    file_opens,  \* calls of open()
    extractions, \* calls of get_swatches_from_data
    sensor_rows, \* the export the CSV text was written from: [schema, rows]
    previous     \* the swatches of the run before this one, <<>> in a first run

vars == <<pc, argv, clipboard, clip_start, files, mode, csv_file, file, sort_type,
          wait, swatches, console, exit_code, exc, slept, clip_reads, clip_writes,
          file_opens, extractions, sensor_rows, previous>>

(***************************************************************************)
(* Bounds of the model                                                     *)
(***************************************************************************)
MaxArgs == 3
MaxRows == 2
MaxSwatches == 3
MaxFragments == 2

(***************************************************************************)
(* Text                                                                    *)
(***************************************************************************)
Digits == {"0","1","2","3","4","5","6","7","8","9"}
Whitespace == {" ", "\n", "\t", "\r"}
UpperLetters == <<"A","B","C","D","E","F","G","H","I","J","K","L","M",
                  "N","O","P","Q","R","S","T","U","V","W","X","Y","Z">>
LowerLetters == <<"a","b","c","d","e","f","g","h","i","j","k","l","m",
                  "n","o","p","q","r","s","t","u","v","w","x","y","z">>

\* Python's None, kept a sequence so that it compares with text
None == <<"<None>">>

LowerChar(c) ==
    IF \E i \in 1..26 : UpperLetters[i] = c
    THEN LowerLetters[CHOOSE i \in 1..26 : UpperLetters[i] = c]
    ELSE c

UpperChar(c) ==
    IF \E i \in 1..26 : LowerLetters[i] = c
    THEN UpperLetters[CHOOSE i \in 1..26 : LowerLetters[i] = c]
    ELSE c

\* str.lower(), str.upper()
Lower(s) == [i \in 1..Len(s) |-> LowerChar(s[i])]
Upper(s) == [i \in 1..Len(s) |-> UpperChar(s[i])]

\* sub in s
Contains(s, sub) ==
    \E i \in 1..(Len(s) - Len(sub) + 1) :
        \A k \in 1..Len(sub) : s[i + k - 1] = sub[k]

\* s[a:] with a counted from 0
From(s, a) == IF a >= Len(s) THEN <<>> ELSE SubSeq(s, a + 1, Len(s))

\* s[0:n]
Take(s, n) == IF n >= Len(s) THEN s ELSE SubSeq(s, 1, n)

\* the pieces of s between the characters of seps, empty pieces kept
Pieces(s, seps) ==
    LET at == {i \in 1..Len(s) : s[i] \in seps}
        n == Cardinality(at)
        pos(k) == IF k = 0 THEN 0
                  ELSE IF k = n + 1 THEN Len(s) + 1
                  ELSE CHOOSE i \in at : Cardinality({j \in at : j < i}) = k - 1
    IN  [k \in 1..(n + 1) |-> SubSeq(s, pos(k - 1) + 1, pos(k) - 1)]

\* s.split(c): every occurrence of c separates, empty pieces kept
Split(s, c) == Pieces(s, {c})

NonEmpty(s) == s # <<>>

\* s.split(): runs of whitespace separate, no empty piece
SplitWS(s) == SelectSeq(Pieces(s, Whitespace), NonEmpty)

\* s.splitlines(): no final empty line
SplitLines(s) ==
    LET p == Pieces(s, {"\n"})
    IN  IF p[Len(p)] = <<>> THEN SubSeq(p, 1, Len(p) - 1) ELSE p

RECURSIVE LStrip(_, _)
LStrip(s, cs) == IF s # <<>> /\ s[1] \in cs THEN LStrip(Tail(s), cs) ELSE s

RECURSIVE RStrip(_, _)
RStrip(s, cs) ==
    IF s # <<>> /\ s[Len(s)] \in cs THEN RStrip(SubSeq(s, 1, Len(s) - 1), cs) ELSE s

\* s.strip(chars)
Strip(s, cs) == RStrip(LStrip(s, cs), cs)

IsChar(c) == c # " "

\* s.replace(' ', '')
RemoveSpaces(s) == SelectSeq(s, IsChar)

\* s.isdigit()
IsDigit(s) == s # <<>> /\ \A i \in 1..Len(s) : s[i] \in Digits

DigitVal(c) == CHOOSE n \in 0..9 : <<"0","1","2","3","4","5","6","7","8","9">>[n + 1] = c

RECURSIVE DecVal(_)
DecVal(s) == IF s = <<>> THEN 0 ELSE 10 * DecVal(SubSeq(s, 1, Len(s) - 1)) + DigitVal(s[Len(s)])

\* int(s) of a string: surrounding whitespace and one sign are accepted;
\* anything else raises ValueError
ParseInt(s) ==
    LET t == Strip(s, Whitespace)
        signed == t # <<>> /\ t[1] \in {"+", "-"}
        d == IF signed THEN Tail(t) ELSE t
    IN  IF IsDigit(d)
        THEN [ok |-> TRUE, val |-> IF signed /\ t[1] = "-" THEN 0 - DecVal(d) ELSE DecVal(d)]
        ELSE [ok |-> FALSE, val |-> 0]

DigitChar(n) == <<"0","1","2","3","4","5","6","7","8","9">>[n + 1]

RECURSIVE NatStr(_)
NatStr(n) ==
    IF n < 10 THEN <<DigitChar(n)>> ELSE NatStr(n \div 10) \o <<DigitChar(n % 10)>>

\* str(n)
IntStr(n) == IF n < 0 THEN <<"-">> \o NatStr(0 - n) ELSE NatStr(n)

RECURSIVE Concat(_)
Concat(ss) == IF ss = <<>> THEN <<>> ELSE Head(ss) \o Concat(Tail(ss))

RECURSIVE Join(_, _)
Join(ss, sep) ==
    IF ss = <<>> THEN <<>>
    ELSE IF Len(ss) = 1 THEN ss[1]
    ELSE ss[1] \o sep \o Join(Tail(ss), sep)

(***************************************************************************)
(* Program constants                                                       *)
(***************************************************************************)
\* the three non-ASCII characters of line 47, each written by its Unicode name
SWATCH_CHAR == <<"U+00E2", "U+2013", "U+201E">>
SWATCH_SIZE == <<"7","2","p","x">>

NoExit == "running"

\* exit() without an argument: the status of SystemExit(None)
ExitStatus == 0

\* the status of a process ended by an uncaught exception
TracebackStatus == 1

(***************************************************************************)
(* msg_display                                                             *)
(***************************************************************************)
UsesExtraInfo == {"error_option", "status_file"}

\* what msg_display prints for a list of message tags
msg_display(msgs, extra_info) ==
    [i \in 1..Len(msgs) |->
        [msg |-> msgs[i],
         info |-> IF msgs[i] \in UsesExtraInfo THEN extra_info ELSE <<>>]]

(***************************************************************************)
(* Swatch                                                                  *)
(***************************************************************************)
\* str(rgb_value) of a 3-tuple of integers
TupleStr(rgb) ==
    <<"(">> \o IntStr(rgb[1]) \o <<",", " ">> \o IntStr(rgb[2]) \o <<",", " ">>
            \o IntStr(rgb[3]) \o <<")">>

\* '%s' % hex_value, where hex_value may be None
StrOf(v) == IF v = None THEN <<"N","o","n","e">> ELSE v

set_html(hex_value, rgb_value) ==
    <<"<","f","o","n","t"," ","c","o","l","o","r","=">> \o StrOf(hex_value)
    \o <<" ","s","i","z","e","=">> \o SWATCH_SIZE \o <<">">> \o SWATCH_CHAR
    \o <<" ","<","/","f","o","n","t",">","<","b",">","H","E","X",":","<","/","b",">"," ">>
    \o StrOf(hex_value)
    \o <<" ","-"," ","<","b",">","R","G","B",":","<","/","b",">"," ">>
    \o TupleStr(rgb_value) \o <<"<","b","r",">","\n">>

Swatch(hex_value, rgb_value) ==
    [hex_value |-> hex_value, rgb_value |-> rgb_value,
     html |-> set_html(hex_value, rgb_value)]

\* Swatch.print
swatch_print(sw) ==
    [msg |-> "swatch",
     info |-> <<" ", " ">> \o SWATCH_CHAR \o <<" ","H","E","X",":"," ">> \o StrOf(sw.hex_value)
              \o <<" ","-"," ","R","G","B",":"," ">> \o TupleStr(sw.rgb_value)]

(***************************************************************************)
(* CSVParser.parse_args, as the stages the function runs through.  A stage *)
(* takes and returns the parser's state; done is set once msg_display has  *)
(* been called with exit_after.                                            *)
(***************************************************************************)
WAIT_LONG == <<"-","-","w","a","i","t">>
DOT_CSV == <<".","c","s","v">>

possible_options ==
    { <<"H">>, <<"h","e","l","p">>, <<"V">>, <<"v","e","r","s","i","o","n">>,
      <<"c">>, <<"c","l","i","p","b","o","a","r","d">>,
      <<"h">>, <<"s","o","r","t","-","h","u","e">>,
      <<"s">>, <<"s","o","r","t","-","s","a","t">>,
      <<"v">>, <<"s","o","r","t","-","v","a","l">> }

ParseStart(args, clip) ==
    [args |-> args, clip |-> clip, options |-> <<>>, csv_file |-> None, file |-> None,
     mode |-> "file", sort_type |-> "None", wait |-> 0, done |-> FALSE,
     out |-> <<>>, exit_wait |-> 0, reads |-> 0]

Exiting(st, msgs, extra_info, w) ==
    [st EXCEPT !.done = TRUE, !.out = @ \o msg_display(msgs, extra_info), !.exit_wait = w]

IsWaitArg(arg) == (arg[1] = "-" /\ arg[Len(arg)] = "w") \/ arg = WAIT_LONG

RemoveAt(s, i) == SubSeq(s, 1, i - 1) \o SubSeq(s, i + 1, Len(s))

\* lines 158-180: the wait value
ParseWait(st) ==
    IF st.done \/ ~ \E i \in 1..Len(st.args) : IsWaitArg(st.args[i]) THEN st
    ELSE
        LET args == st.args
            i == CHOOSE k \in 1..Len(args) :
                    IsWaitArg(args[k]) /\ \A j \in 1..(k - 1) : ~ IsWaitArg(args[j])
        IN  IF Len(args) > i /\ IsDigit(args[i + 1])
            THEN [st EXCEPT
                    !.wait = DecVal(args[i + 1]),
                    !.args = IF args[i] = WAIT_LONG
                             THEN RemoveAt(RemoveAt(args, i + 1), i)
                             ELSE [RemoveAt(args, i + 1) EXCEPT ![i] = Strip(args[i], {"w"})]]
            ELSE Exiting(st, <<"error_wait", "info_tryhelp">>, <<>>, 1)

\* lines 185-188: the options one argument stands for
ArgOptions(arg) ==
    IF Take(arg, 2) = <<"-", "-">> THEN << From(arg, 2) >>
    ELSE IF arg[1] = "-" THEN [k \in 1..(Len(arg) - 1) |-> << arg[k + 1] >>]
    ELSE <<>>

IsCsvArg(arg) ==
    /\ Take(arg, 2) # <<"-", "-">>
    /\ arg[1] # "-"
    /\ Contains(Lower(arg), DOT_CSV)

\* lines 182-190: the options list and the CSV file
ParseOptions(st) ==
    IF st.done THEN st
    ELSE
        LET args == st.args
            csvs == SelectSeq(args, IsCsvArg)
        IN  [st EXCEPT
                !.options = Concat([k \in 1..Len(args) |-> ArgOptions(args[k])]),
                !.csv_file = IF csvs = <<>> THEN None ELSE csvs[Len(csvs)]]

HasOption(st, short, long) ==
    \E k \in 1..Len(st.options) : st.options[k] \in {short, long}

\* lines 215-222: file or clipboard mode
ParseMode(st) ==
    IF st.done \/ ~ HasOption(st, <<"c">>, <<"c","l","i","p","b","o","a","r","d">>) THEN st
    ELSE IF Contains(Lower(st.clip), DOT_CSV)
         THEN [st EXCEPT !.reads = @ + 1, !.file = Strip(st.clip, {"\""})]
    ELSE [st EXCEPT !.reads = @ + 1, !.mode = "clipboard"]

IsBadOption(option) == option \notin possible_options

\* lines 198-201: the prefix shown before an unrecognized option
OptionPrefix(option) == IF Len(option) > 1 THEN <<"-", "-">> ELSE <<"-">>

\* ParseValidate with the clipboard read of line 217 moved before the check
ParseValidateAfterPaste(st) ==
    IF st.done THEN st
    ELSE
        LET bad == SelectSeq(st.options, IsBadOption)
        IN  IF bad = <<>> THEN st
            ELSE Exiting(ParseMode(st), <<"error_option", "info_tryhelp">>,
                         OptionPrefix(bad[1]) \o bad[1], st.wait)

\* lines 192-207: the first unrecognized option ends the run
ParseValidate(st) ==
    IF st.done THEN st
    ELSE
        LET bad == SelectSeq(st.options, IsBadOption)
        IN  IF bad = <<>> THEN st
            ELSE Exiting(st, <<"error_option", "info_tryhelp">>,
                         OptionPrefix(bad[1]) \o bad[1], st.wait)

\* lines 209-213: --help and --version
ParseInfo(st) ==
    IF st.done THEN st
    ELSE IF HasOption(st, <<"H">>, <<"h","e","l","p">>)
         THEN Exiting(st, <<"info_help">>, <<>>, st.wait)
    ELSE IF HasOption(st, <<"V">>, <<"v","e","r","s","i","o","n">>)
         THEN Exiting(st, <<"info_version">>, <<>>, st.wait)
    ELSE st

\* lines 224-230: the sort type
ParseSort(st) ==
    IF st.done THEN st
    ELSE IF HasOption(st, <<"h">>, <<"s","o","r","t","-","h","u","e">>)
         THEN [st EXCEPT !.sort_type = "hue"]
    ELSE IF HasOption(st, <<"s">>, <<"s","o","r","t","-","s","a","t">>)
         THEN [st EXCEPT !.sort_type = "saturation"]
    ELSE IF HasOption(st, <<"v">>, <<"s","o","r","t","-","v","a","l">>)
         THEN [st EXCEPT !.sort_type = "value"]
    ELSE st

\* lines 149-230
parse_args(args, clip) ==
    IF Len(args) = 0
    THEN Exiting(ParseStart(args, clip), <<"info_usage">>, <<>>, 1)
    ELSE ParseSort(ParseMode(ParseInfo(ParseValidate(ParseOptions(ParseWait(
             ParseStart(args, clip)))))))

(***************************************************************************)
(* csv.DictReader over lines without quoting                               *)
(***************************************************************************)
\* csv.reader on one line: an empty line is the empty row
csv_row(line) == IF line = <<>> THEN <<>> ELSE Split(line, ",")

\* row[key] of the dict DictReader builds: the last column of that name wins,
\* a column the row is too short for holds None, a name not in the header
\* raises KeyError
Lookup(fieldnames, row, key) ==
    IF \E i \in 1..Len(fieldnames) : fieldnames[i] = key
    THEN LET i == CHOOSE k \in 1..Len(fieldnames) :
                     fieldnames[k] = key
                     /\ \A j \in (k + 1)..Len(fieldnames) : fieldnames[j] # key
         IN  [found |-> TRUE, val |-> IF i <= Len(row) THEN row[i] ELSE None]
    ELSE [found |-> FALSE, val |-> None]

\* int(v) of a looked-up value
IntOfValue(l) ==
    IF ~ l.found THEN [exc |-> "KeyError", val |-> 0]
    ELSE IF l.val = None THEN [exc |-> "TypeError", val |-> 0]
    ELSE IF ParseInt(l.val).ok THEN [exc |-> "none", val |-> ParseInt(l.val).val]
    ELSE [exc |-> "ValueError", val |-> 0]

\* int(row[key])
IntOf(fieldnames, row, key) == IntOfValue(Lookup(fieldnames, row, key))

\* a tuple of three int() calls, evaluated left to right
Tuple3(r, g, b) ==
    IF r.exc # "none" THEN [exc |-> r.exc, rgb |-> <<0, 0, 0>>]
    ELSE IF g.exc # "none" THEN [exc |-> g.exc, rgb |-> <<0, 0, 0>>]
    ELSE IF b.exc # "none" THEN [exc |-> b.exc, rgb |-> <<0, 0, 0>>]
    ELSE [exc |-> "none", rgb |-> <<r.val, g.val, b.val>>]

\* (int(row[kr]), int(row[kg]), int(row[kb]))
IntTriple(fieldnames, row, kr, kg, kb) ==
    Tuple3(IntOf(fieldnames, row, kr), IntOf(fieldnames, row, kg), IntOf(fieldnames, row, kb))

MINI_HEX == <<" ","H","E","X">>
MINI_R == <<" ","s","R","G","B"," ","R">>
MINI_G == <<" ","s","R","G","B"," ","G">>
MINI_B == <<" ","s","R","G","B"," ","B">>

\* lines 252-260: h is row['HEX'], t the tuple of int(row['R']), ...
ProValues(h, t) ==
    IF ~ h.found THEN [exc |-> "KeyError", hex |-> None, rgb |-> <<0, 0, 0>>]
    ELSE IF t.exc = "TypeError" THEN [exc |-> "none", hex |-> h.val, rgb |-> <<0, 0, 0>>]
    ELSE [exc |-> t.exc, hex |-> h.val, rgb |-> t.rgb]

\* lines 251-260: the Pro columns, tried after a KeyError of the Mini ones
RowPro(fieldnames, row) ==
    ProValues(Lookup(fieldnames, row, <<"H","E","X">>),
              IntTriple(fieldnames, row, <<"R">>, <<"G">>, <<"B">>))

\* lines 244-251: h is row[' HEX'], t the tuple of int(row[' sRGB R']), ...,
\* pro what the except KeyError branch gives
MiniValues(h, t, pro) ==
    IF ~ h.found THEN pro
    ELSE IF h.val = None THEN [exc |-> "AttributeError", hex |-> None, rgb |-> <<0, 0, 0>>]
    ELSE IF t.exc = "KeyError" THEN pro
    ELSE [exc |-> t.exc, hex |-> RemoveSpaces(h.val), rgb |-> t.rgb]

\* lines 244-260: hex_value and rgb_value of one row, or the exception raised
RowValues(fieldnames, row) ==
    MiniValues(Lookup(fieldnames, row, MINI_HEX),
               IntTriple(fieldnames, row, MINI_R, MINI_G, MINI_B),
               RowPro(fieldnames, row))

\* has_data with `or' for `and'
has_data_either(hex_value, rgb_value) == hex_value # <<>> \/ rgb_value # <<0, 0, 0>>

\* line 263: the rows that become swatches
has_data(hex_value, rgb_value) == hex_value # <<>> /\ rgb_value # <<0, 0, 0>>

\* the first entry of vals that raised, Len(vals) + 1 when none did
FirstRaise(vals) ==
    IF \E i \in 1..Len(vals) : vals[i].exc # "none"
    THEN CHOOSE i \in 1..Len(vals) :
            vals[i].exc # "none" /\ \A j \in 1..(i - 1) : vals[j].exc = "none"
    ELSE Len(vals) + 1

\* line 264 (filtered by line 263) and line 271 (unfiltered): the swatches
\* appended for the entries of vals before index stop
Kept(vals, stop, filtered) ==
    LET at == {i \in 1..(stop - 1) : ~ filtered \/ has_data(vals[i].hex, vals[i].rgb)}
        nth(k) == CHOOSE i \in at : Cardinality({j \in at : j < i}) = k - 1
    IN  [k \in 1..Cardinality(at) |-> Swatch(vals[nth(k)].hex, vals[nth(k)].rgb)]

\* a for loop over vals that appends to self.swatches until an entry raises
Loop(vals, filtered, acc) ==
    LET stop == FirstRaise(vals)
    IN  [exc |-> IF stop > Len(vals) THEN "none" ELSE vals[stop].exc,
         swatches |-> acc \o Kept(vals, stop, filtered)]

\* lines 237-264: html is False.  DictReader takes the first line as the
\* header and skips empty rows; the loop ends at the first exception
FromCsv(lines, acc) ==
    IF lines = <<>> THEN [exc |-> "none", swatches |-> acc]
    ELSE LET fieldnames == csv_row(lines[1])
             rows == SelectSeq([k \in 1..(Len(lines) - 1) |-> csv_row(lines[k + 1])], NonEmpty)
         IN  Loop([i \in 1..Len(rows) |-> RowValues(fieldnames, rows[i])], TRUE, acc)

(***************************************************************************)
(* The HTML path                                                           *)
(***************************************************************************)
HexDigits == <<"0","1","2","3","4","5","6","7","8","9","a","b","c","d","e","f">>

IsHexChar(c) == \E n \in 1..16 : HexDigits[n] = LowerChar(c)

HexVal(c) == (CHOOSE n \in 1..16 : HexDigits[n] = LowerChar(c)) - 1

\* bytes.fromhex(s) for a string without whitespace
fromhex(s) ==
    IF Len(s) % 2 = 0 /\ \A i \in 1..Len(s) : IsHexChar(s[i])
    THEN [ok |-> TRUE,
          bytes |-> [k \in 1..(Len(s) \div 2) |-> 16 * HexVal(s[2 * k - 1]) + HexVal(s[2 * k])]]
    ELSE [ok |-> FALSE, bytes |-> <<>>]

COLOR_MARK == <<"c","o","l","o","r","=","#">>

\* html_hex taking the piece before '='
html_hex_before(word) == Split(word, "=")[1]

\* line 268: the HEX value after '='
html_hex(word) == Split(word, "=")[2]

\* lines 268-270: hex_value and rgb_value of one word, or ValueError when
\* bytes.fromhex or the unpacking into three bytes fails
WordBytes(hex_value, b) ==
    IF b.ok /\ Len(b.bytes) = 3
    THEN [exc |-> "none", hex |-> hex_value, rgb |-> b.bytes]
    ELSE [exc |-> "ValueError", hex |-> hex_value, rgb |-> <<0, 0, 0>>]

WordValues(word) == WordBytes(html_hex(word), fromhex(From(html_hex(word), 1)))

HasColor(word) == Contains(word, COLOR_MARK)

\* lines 265-271: html is True.  Every word holding 'color=#' is a swatch
FromHtml(data, acc) ==
    LET words == SelectSeq(SplitWS(data), HasColor)
    IN  Loop([i \in 1..Len(words) |-> WordValues(words[i])], FALSE, acc)

\* lines 234-271
get_swatches_from_data(data, html, acc) ==
    IF html THEN FromHtml(data, acc) ELSE FromCsv(SplitLines(data), acc)

(***************************************************************************)
(* colorsys.rgb_to_hsv on the raw channel values.  A component is the      *)
(* fraction <<numerator, denominator>> with a positive denominator that    *)
(* the float stands for.                                                   *)
(***************************************************************************)
Max3(a, b, c) == IF a >= b /\ a >= c THEN a ELSE IF b >= c THEN b ELSE c
Min3(a, b, c) == IF a <= b /\ a <= c THEN a ELSE IF b <= c THEN b ELSE c

Frac(n, d) == IF d < 0 THEN <<0 - n, 0 - d>> ELSE <<n, d>>

\* x % 1.0 of the fraction n/d
Mod1(f) == <<f[1] % f[2], f[2]>>

\* rangec / maxc raises ZeroDivisionError
DividesByZero(rgb) ==
    Max3(rgb[1], rgb[2], rgb[3]) = 0 /\ Min3(rgb[1], rgb[2], rgb[3]) # 0

rgb_to_hsv(r, g, b) ==
    LET maxc == Max3(r, g, b)
        minc == Min3(r, g, b)
        rangec == maxc - minc
    IN  IF minc = maxc THEN << <<0, 1>>, <<0, 1>>, <<maxc, 1>> >>
        ELSE << Mod1(<< IF r = maxc THEN g - b
                        ELSE IF g = maxc THEN 2 * rangec + b - r
                        ELSE 4 * rangec + r - g,
                        6 * rangec >>),
                Frac(rangec, maxc),
                <<maxc, 1>> >>

\* a < b, a <= b on fractions
FracLess(a, b) == a[1] * b[2] < b[1] * a[2]

SortIndex(t) == CASE t = "hue" -> 1 [] t = "saturation" -> 2 [] t = "value" -> 3

\* lines 315-316, 321-322, 327-328: the key lambda
sort_key(t, sw) == rgb_to_hsv(sw.rgb_value[1], sw.rgb_value[2], sw.rgb_value[3])[SortIndex(t)]

\* sorted with equal keys in reverse order
sorted_unstable(t, s) ==
    LET less(i, j) == FracLess(sort_key(t, s[i]), sort_key(t, s[j]))
        rank(i) == Cardinality({j \in 1..Len(s) : less(j, i)})
                   + Cardinality({j \in (i + 1)..Len(s) : ~ less(j, i) /\ ~ less(i, j)}) + 1
    IN  [k \in 1..Len(s) |-> s[CHOOSE i \in 1..Len(s) : rank(i) = k]]

\* sorted(s, key=...): ascending and stable, so s[i] comes after the
\* elements of smaller key and after the earlier elements of equal key
sorted(t, s) ==
    LET less(i, j) == FracLess(sort_key(t, s[i]), sort_key(t, s[j]))
        rank(i) == Cardinality({j \in 1..Len(s) : less(j, i)})
                   + Cardinality({j \in 1..(i - 1) : ~ less(j, i) /\ ~ less(i, j)}) + 1
    IN  [k \in 1..Len(s) |-> s[CHOOSE i \in 1..Len(s) : rank(i) = k]]

\* lines 306-329: the list sort_swatches leaves in self.swatches
sort_swatches(t, s) == IF t = "None" THEN s ELSE sorted(t, s)

\* output_text prepending each fragment
output_text_prepend(s) == Concat([i \in 1..Len(s) |-> s[Len(s) + 1 - i].html])

\* lines 335-338: the text output_swatches copies
output_text(s) == Concat([i \in 1..Len(s) |-> s[i].html])

(***************************************************************************)
(* CSVParser.get_swatches                                                  *)
(***************************************************************************)
HEX_MARK == <<"H","E","X",",">>
FONT_MARK == <<"<","f","o","n","t"," ","c","o","l","o","r","=","#">>

\* open(path): the text of the file, or FileNotFoundError
Open(fs, path) ==
    IF \E f \in fs : f[1] = path
    THEN [ok |-> TRUE, text |-> (CHOOSE f \in fs : f[1] = path)[2]]
    ELSE [ok |-> FALSE, text |-> <<>>]

\* what get_swatches finds: csv or html data to extract, or no data
\* (lines 289-293), no file name (lines 299-303), or a file that cannot be opened
Found(m, cf, clip, fs) ==
    IF m = "clipboard"
    THEN IF Contains(clip, HEX_MARK) THEN "csv"
         ELSE IF Contains(clip, FONT_MARK) THEN "html"
         ELSE "clipboard_nodata"
    ELSE IF cf = None THEN "nodata"
         ELSE IF Open(fs, cf).ok THEN "csv"
         ELSE "FileNotFoundError"

Messages(m, cf, found) ==
    IF m = "clipboard"
    THEN msg_display(CASE found = "csv" -> <<"status_clipboard">>
                       [] found = "html" -> <<"status_clipboard", "status_html">>
                       [] OTHER -> <<"status_clipboard", "error_clipboard_nodata",
                                     "info_tryhelp">>, <<>>)
    ELSE IF found = "nodata"
         THEN msg_display(<<"error_nodata", "info_usage", "info_tryhelp">>, <<>>)
         ELSE msg_display(<<"status_file">>, cf)

\* GetOutcome with paste() called in each test of the clipboard text
GetOutcomePasteTwice(m, cf, found, r, acc) ==
    [out |-> Messages(m, cf, found),
     reads |-> IF m = "clipboard" THEN 2 ELSE 0,
     opens |-> IF m # "clipboard" /\ cf # None THEN 1 ELSE 0,
     extr |-> IF found \in {"csv", "html"} THEN 1 ELSE 0,
     ended |-> found \in {"clipboard_nodata", "nodata"},
     exc |-> IF found \in {"csv", "html"} THEN r.exc
             ELSE IF found = "FileNotFoundError" THEN found ELSE "none",
     swatches |-> IF found \in {"csv", "html"} THEN r.swatches ELSE acc]

\* the effects of get_swatches: found is what it found, r the extraction
GetOutcome(m, cf, found, r, acc) ==
    [out |-> Messages(m, cf, found),
     reads |-> IF m = "clipboard" THEN 1 ELSE 0,
     opens |-> IF m # "clipboard" /\ cf # None THEN 1 ELSE 0,
     extr |-> IF found \in {"csv", "html"} THEN 1 ELSE 0,
     ended |-> found \in {"clipboard_nodata", "nodata"},
     exc |-> IF found \in {"csv", "html"} THEN r.exc
             ELSE IF found = "FileNotFoundError" THEN found ELSE "none",
     swatches |-> IF found \in {"csv", "html"} THEN r.swatches ELSE acc]

\* lines 274-303
get_swatches(m, cf, clip, fs, acc) ==
    GetOutcome(m, cf, Found(m, cf, clip, fs),
               get_swatches_from_data(IF m = "clipboard" THEN clip ELSE Open(fs, cf).text,
                                      Found(m, cf, clip, fs) = "html", acc),
               acc)

(***************************************************************************)
(* The inputs of a run                                                     *)
(***************************************************************************)
T_CLIPBOARD == <<"-","-","c","l","i","p","b","o","a","r","d">>
T_CS == <<"-","c","s">>
T_SORT_HUE == <<"-","-","s","o","r","t","-","h","u","e">>
T_CW == <<"-","c","w">>
T_FIVE == <<"5">>
T_HELP == <<"-","-","h","e","l","p">>
T_VERSION == <<"-","V">>
T_BOGUS == <<"-","-","b","o","g","u","s">>
T_X == <<"-","-","x">>
T_TEST_CSV == <<"t","e","s","t",".","c","s","v">>
T_NONE_CSV == <<"n","o","n","e",".","c","s","v">>

Tokens == { T_CLIPBOARD, T_CS, T_SORT_HUE, WAIT_LONG, T_CW, T_FIVE, T_HELP,
            T_VERSION, T_BOGUS, T_X, T_TEST_CSV, T_NONE_CSV }

ArgvSet == UNION { [1..n -> Tokens] : n \in 0..MaxArgs }

H_FFC700 == <<"#","F","F","C","7","0","0">>
H_008052 == <<"#","0","0","8","0","5","2">>
H_123456 == <<"#","1","2","3","4","5","6">>
H_000000 == <<"#","0","0","0","0","0","0">>

PRO_HEADER == << <<"H","E","X">>, <<"R">>, <<"G">>, <<"B">> >>
MINI_HEADER == << MINI_HEX, MINI_R, MINI_G, MINI_B >>

\* the text of a CSV export: one line per row, fields separated by commas
CsvText(rows) == Concat([i \in 1..Len(rows) |-> Join(rows[i], <<",">>) \o <<"\n">>])

ProRow(hex, r, g, b) == <<hex, IntStr(r), IntStr(g), IntStr(b)>>

ClipCsv ==
    CsvText(<< PRO_HEADER, ProRow(H_FFC700, 255, 199, 0), ProRow(H_008052, 0, 128, 82) >>)

ClipHtml == set_html(H_FFC700, <<255, 199, 0>>) \o set_html(H_008052, <<0, 128, 82>>)

\* a font tag with five hex digits
ClipBadHtml ==
    <<"<","f","o","n","t"," ","c","o","l","o","r","=","#","1","2","3","4","5",
      " ","s","i","z","e","=","7","2","p","x",">">>

ClipNoData == <<"n","o","d","a","t","a">>

ClipTexts == { T_TEST_CSV, ClipCsv, ClipHtml, ClipBadHtml, ClipNoData }

FileGood ==
    CsvText(<< PRO_HEADER, ProRow(H_008052, 0, 128, 82), ProRow(H_000000, 0, 0, 0),
               ProRow(H_FFC700, 255, 199, 0) >>)

\* a Pro row whose R field is not a number
FileBadField == CsvText(<< PRO_HEADER, <<H_123456, <<"x">>, <<"2">>, <<"3">> >> >>)

FileTexts == { FileGood, FileBadField }

(***************************************************************************)
(* A sensor export: the rows a CSV text is written from.  A field holds    *)
(* its text and the integer int() reads from it (ok is FALSE when int()    *)
(* raises); a hex field holds its text and the text without spaces.  A row *)
(* of width 1 ends after its HEX field.                                    *)
(***************************************************************************)
NoExport == [schema |-> "none", rows |-> <<>>]

Num(n) == [txt |-> IntStr(n), ok |-> TRUE, int |-> n]

HexFields ==
    { [txt |-> <<>>, bare |-> <<>>],
      [txt |-> H_123456, bare |-> H_123456],
      [txt |-> <<" ">> \o H_FFC700, bare |-> H_FFC700] }

RFields == { Num(0), Num(255), [txt |-> <<"x">>, ok |-> FALSE, int |-> 0] }
GFields == { Num(0), [txt |-> <<" ", "7">>, ok |-> TRUE, int |-> 7] }
BFields == { Num(0) }

ExportRows ==
    { [hex |-> h, r |-> r, g |-> g, b |-> b, width |-> 4] :
          h \in HexFields, r \in RFields, g \in GFields, b \in BFields }
    \cup { [hex |-> h, r |-> Num(0), g |-> Num(0), b |-> Num(0), width |-> 1] :
               h \in HexFields }

RowText(row) ==
    IF row.width = 1 THEN <<row.hex.txt>>
    ELSE <<row.hex.txt, row.r.txt, row.g.txt, row.b.txt>>

ExportText(e) ==
    CsvText(<< IF e.schema = "mini" THEN MINI_HEADER ELSE PRO_HEADER >>
            \o [i \in 1..Len(e.rows) |-> RowText(e.rows[i])])

SeqsUpTo(S, n) == UNION { [1..k -> S] : k \in 0..n }

Exports ==
    { [schema |-> sc, rows |-> rows] :
          sc \in {"mini", "pro"}, rows \in SeqsUpTo(ExportRows, MaxRows) }

Color(hex, r, g, b) ==
    [hex |-> [txt |-> hex, bare |-> hex], r |-> Num(r), g |-> Num(g), b |-> Num(b),
     width |-> 4]

H_804000 == <<"#","8","0","4","0","0","0">>
H_402000 == <<"#","4","0","2","0","0","0">>
H_65696A == <<"#","6","5","6","9","6","A">>
H_646464 == <<"#","6","4","6","4","6","4">>

\* colours with equal hue (804000, 402000), equal saturation and equal value
\* (008052, 804000)
Palette ==
    { Color(H_FFC700, 255, 199, 0), Color(H_008052, 0, 128, 82),
      Color(H_804000, 128, 64, 0), Color(H_402000, 64, 32, 0),
      Color(H_65696A, 101, 105, 106), Color(H_646464, 100, 100, 100) }

T_C == <<"-","c">>
T_V == <<"-","v">>

SortArgvs == { <<T_C>>, <<T_C, T_SORT_HUE>>, <<T_CS>>, <<T_C, T_V>> }

h_ffc700 == <<"#","f","f","c","7","0","0">>
H_12345 == <<"#","1","2","3","4","5">>

\* records a CSV row can give: the rgb the hex encodes, another rgb, a hex
\* without '#', a hex of five digits
RoundTripRows ==
    { Color(H_FFC700, 255, 199, 0), Color(h_ffc700, 255, 199, 0),
      Color(H_008052, 0, 128, 82), Color(H_FFC700, 1, 2, 3),
      Color(Tail(H_FFC700), 255, 199, 0), Color(H_12345, 1, 35, 69) }

(***************************************************************************)
(* One run of main()                                                       *)
(***************************************************************************)
Fresh ==
    /\ mode = "file"
    /\ csv_file = None
    /\ file = None
    /\ sort_type = "None"
    /\ wait = 0
    /\ swatches = <<>>
    /\ console = <<>>
    /\ exit_code = NoExit
    /\ exc = "none"
    /\ slept = 0
    /\ clip_reads = 0
    /\ clip_writes = 0
    /\ file_opens = 0
    /\ extractions = 0

Init ==
    /\ pc = "start"
    /\ argv \in ArgvSet
    /\ clipboard \in ClipTexts
    /\ clip_start = clipboard
    /\ files \in { {<<T_TEST_CSV, t>>} : t \in FileTexts }
    /\ sensor_rows = NoExport
    /\ previous = <<>>
    /\ Fresh

\* an uncaught exception: the traceback, then status 1
Raise(e) ==
    /\ pc' = "exited"
    /\ exc' = e
    /\ exit_code' = TracebackStatus

\* lines 51-55
exit_wait(w) ==
    /\ pc' = "exited"
    /\ slept' = w
    /\ exit_code' = ExitStatus

\* lines 348-350: the blank line, then CSVParser() runs parse_args
ParseArgs ==
    /\ pc = "start"
    /\ \E st \in {parse_args(argv, clipboard)} :
           /\ console' = console \o <<[msg |-> "blank", info |-> <<>>]>> \o st.out
           /\ mode' = st.mode
           /\ csv_file' = st.csv_file
           /\ file' = st.file
           /\ sort_type' = st.sort_type
           /\ wait' = st.wait
           /\ clip_reads' = clip_reads + st.reads
           /\ IF st.done
              THEN exit_wait(st.exit_wait)
              ELSE pc' = "parsed" /\ UNCHANGED <<slept, exit_code>>
    /\ UNCHANGED <<argv, clipboard, clip_start, files, swatches, exc, clip_writes,
                   file_opens, extractions, sensor_rows, previous>>

\* line 351
GetSwatches ==
    /\ pc = "parsed"
    /\ \E r \in {get_swatches(mode, csv_file, clipboard, files, swatches)} :
           /\ console' = console \o r.out
           /\ clip_reads' = clip_reads + r.reads
           /\ file_opens' = file_opens + r.opens
           /\ extractions' = extractions + r.extr
           /\ swatches' = r.swatches
           /\ IF r.ended THEN exit_wait(wait) /\ UNCHANGED exc
              ELSE IF r.exc # "none" THEN Raise(r.exc) /\ UNCHANGED slept
              ELSE pc' = "extracted" /\ UNCHANGED <<exc, slept, exit_code>>
    /\ UNCHANGED <<argv, clipboard, clip_start, files, mode, csv_file, file, sort_type,
                   wait, clip_writes, sensor_rows, previous>>

\* line 352
SortSwatches ==
    /\ pc = "extracted"
    /\ IF sort_type # "None" /\ \E i \in 1..Len(swatches) : DividesByZero(swatches[i].rgb_value)
       THEN Raise("ZeroDivisionError") /\ UNCHANGED swatches
       ELSE /\ swatches' = sort_swatches(sort_type, swatches)
            /\ pc' = "sorted"
            /\ UNCHANGED <<exc, exit_code>>
    /\ UNCHANGED <<argv, clipboard, clip_start, files, mode, csv_file, file, sort_type,
                   wait, console, slept, clip_reads, clip_writes, file_opens,
                   extractions, sensor_rows, previous>>

\* line 353, lines 332-340
OutputSwatches ==
    /\ pc = "sorted"
    /\ console' = console \o [i \in 1..Len(swatches) |-> swatch_print(swatches[i])]
    /\ clipboard' = output_text(swatches)
    /\ clip_writes' = clip_writes + 1
    /\ pc' = "output"
    /\ UNCHANGED <<argv, clip_start, files, mode, csv_file, file, sort_type, wait,
                   swatches, exit_code, exc, slept, clip_reads, file_opens,
                   extractions, sensor_rows, previous>>

\* lines 355-366: the report, then exit_wait
Report ==
    /\ pc = "output"
    /\ console' = Append(console,
          [msg |-> IF sort_type # "None" THEN "report_sorted" ELSE "report",
           info |-> IntStr(Len(swatches))])
    /\ exit_wait(wait)
    /\ UNCHANGED <<argv, clipboard, clip_start, files, mode, csv_file, file, sort_type,
                   wait, swatches, exc, clip_reads, clip_writes, file_opens,
                   extractions, sensor_rows, previous>>

\* the script is started again, on the clipboard the run before left
Relaunch ==
    /\ pc = "exited"
    /\ exit_code = ExitStatus
    /\ clip_writes = 1
    /\ previous # swatches
    /\ pc' = "start"
    /\ previous' = swatches
    /\ clip_start' = clipboard
    /\ mode' = "file"
    /\ csv_file' = None
    /\ file' = None
    /\ sort_type' = "None"
    /\ wait' = 0
    /\ swatches' = <<>>
    /\ console' = <<>>
    /\ exit_code' = NoExit
    /\ exc' = "none"
    /\ slept' = 0
    /\ clip_reads' = 0
    /\ clip_writes' = 0
    /\ file_opens' = 0
    /\ extractions' = 0
    /\ UNCHANGED <<argv, clipboard, files, sensor_rows>>

Next == ParseArgs \/ GetSwatches \/ SortSwatches \/ OutputSwatches \/ Report

Spec == Init /\ [][Next]_vars

(***************************************************************************)
(* Extraction from CSV: -c on a clipboard holding a sensor export          *)
(***************************************************************************)
InitExtract ==
    /\ pc = "start"
    /\ argv = <<T_C>>
    /\ sensor_rows \in Exports
    /\ clipboard = ExportText(sensor_rows)
    /\ clip_start = clipboard
    /\ files = {}
    /\ previous = <<>>
    /\ Fresh

NextExtract == ParseArgs \/ GetSwatches

SpecExtract == InitExtract /\ [][NextExtract]_vars

(***************************************************************************)
(* Sorting: -c with a sort option on a clipboard holding palette colours   *)
(***************************************************************************)
InitSort ==
    /\ pc = "start"
    /\ argv \in SortArgvs
    /\ sensor_rows \in { [schema |-> "pro", rows |-> rows] :
                            rows \in SeqsUpTo(Palette, MaxSwatches) }
    /\ clipboard = ExportText(sensor_rows)
    /\ clip_start = clipboard
    /\ files = {}
    /\ previous = <<>>
    /\ Fresh

NextSort == ParseArgs \/ GetSwatches \/ SortSwatches

SpecSort == InitSort /\ [][NextSort]_vars

(***************************************************************************)
(* Re-ingestion: a run writes its HTML to the clipboard, the next run      *)
(* reads it back                                                           *)
(***************************************************************************)
InitHtml ==
    /\ pc = "start"
    /\ argv = <<T_C>>
    /\ sensor_rows \in { [schema |-> "pro", rows |-> rows] :
                            rows \in SeqsUpTo(RoundTripRows, MaxFragments) }
    /\ clipboard = ExportText(sensor_rows)
    /\ clip_start = clipboard
    /\ files = {}
    /\ previous = <<>>
    /\ Fresh

NextHtml == ParseArgs \/ GetSwatches \/ SortSwatches \/ OutputSwatches \/ Report \/ Relaunch

SpecHtml == InitHtml /\ [][NextHtml]_vars

(***************************************************************************)
(* Properties                                                              *)
(***************************************************************************)
Printed(m) == \E i \in 1..Len(console) : console[i].msg = m

Succeeded ==
    pc = "exited" /\ exc = "none" /\ (Printed("report") \/ Printed("report_sorted"))

ServedInfo == Printed("info_help") \/ Printed("info_version")

UsageError ==
    pc = "exited" /\ (argv = <<>> \/ Printed("error_option") \/ Printed("error_wait"))

Records(s) == [i \in 1..Len(s) |-> <<s[i].hex_value, s[i].rgb_value>>]

\* C1: the exit code is 0 when the run succeeds or --help/--version is
\* served, and non-zero on every error path.
C1_ExitCodeContract ==
    pc = "exited" =>
        IF Succeeded \/ ServedInfo THEN exit_code = 0 ELSE exit_code # 0

\* C2: with --clipboard/-c, no positional CSV file and a clipboard text
\* containing '.csv', the clipboard text is the file path: get_swatches opens
\* and extracts from that file and the run does not end in the 'no CSV data
\* provided' error.
C2_ClipboardPathOpened ==
    (pc = "exited" /\ file # None /\ csv_file = None) =>
        /\ file_opens = 1
        /\ extractions = 1
        /\ ~ Printed("error_nodata")

\* C4: the unrecognized-option diagnostic names exactly the token as it was
\* typed, with its own '--' or '-' prefix, and is followed by the try-help hint.
C4_OptionEchoedAsTyped ==
    \A i \in 1..Len(console) :
        console[i].msg = "error_option" =>
            /\ \E k \in 1..Len(argv) : argv[k] = console[i].info
            /\ i < Len(console)
            /\ console[i + 1].msg = "info_tryhelp"

\* C8: a run that ends in a usage error (no arguments, an unrecognized option,
\* a missing or invalid wait value) has not read or written the clipboard, has
\* opened no file and has extracted nothing.
C8_UsageErrorBeforeData ==
    UsageError =>
        /\ clip_reads = 0
        /\ clip_writes = 0
        /\ file_opens = 0
        /\ extractions = 0
        /\ swatches = <<>>
        /\ clipboard = clip_start

\* an unrecognized option after a clipboard option and a CSV file name
C8_Witness ==
    /\ UsageError
    /\ Printed("error_option")
    /\ \E k \in 1..Len(argv) : argv[k] \in {T_CLIPBOARD, T_CS}
    /\ \E k \in 1..Len(argv) : argv[k] = T_TEST_CSV

\* C9 as claimed: the clipboard is accessed at most twice in a run, one read
\* and one write, and a run whose input comes from the clipboard has read it
\* exactly once.
C9_ClipboardReadOnce ==
    /\ clip_reads <= 1
    /\ clip_writes <= 1
    /\ (pc = "exited" /\ mode = "clipboard") => clip_reads = 1

\* C9 amended: the clipboard is written at most once and read at most twice,
\* by parse_args and then by get_swatches; a run whose input comes from the
\* clipboard has read it exactly twice, a run in file mode at most once.
C9_ClipboardReadTwice ==
    /\ clip_reads <= 2
    /\ clip_writes <= 1
    /\ (pc = "exited" /\ mode = "clipboard") => clip_reads = 2
    /\ mode = "file" => clip_reads <= 1

\* a successful run on clipboard data: two reads, then the write
C9_Witness ==
    /\ Succeeded
    /\ mode = "clipboard"
    /\ clip_reads = 2
    /\ clip_writes = 1

\* C10: only output_swatches writes the clipboard, after parsing, input
\* resolution, extraction and sorting have completed without error: a run
\* that ends on an error path or serves --help/--version leaves the clipboard
\* as it was, a successful run leaves the records' HTML fragments concatenated
\* in final order (the empty text when there is no record).
C10_ClipboardWrittenOnSuccess ==
    /\ clip_writes > 0 => (pc \in {"output", "exited"} /\ exc = "none")
    /\ (pc = "exited" /\ ~ Succeeded) => (clip_writes = 0 /\ clipboard = clip_start)
    /\ Succeeded =>
          /\ clip_writes = 1
          /\ clipboard = Concat([i \in 1..Len(swatches) |->
                                    set_html(swatches[i].hex_value, swatches[i].rgb_value)])
    /\ (Succeeded /\ swatches = <<>>) => clipboard = <<>>

\* a successful hue-sorted run that replaced the clipboard by two fragments
C10_Witness ==
    /\ Succeeded
    /\ sort_type = "hue"
    /\ Len(swatches) = 2
    /\ swatches[1] # swatches[2]
    /\ clipboard # clip_start

(***************************************************************************)
(* Properties of extraction, checked under SpecExtract                     *)
(***************************************************************************)
AllOk(row) == row.r.ok /\ row.g.ok /\ row.b.ok

\* the hex and rgb a row stands for: a Mini hex loses its spaces; a row that
\* ends before its R, G, B fields, or holds one that is no integer, has rgb
\* (0, 0, 0)
RowHex(row) == IF sensor_rows.schema = "mini" THEN row.hex.bare ELSE row.hex.txt

RowRgb(row) ==
    IF row.width = 4 /\ AllOk(row) THEN <<row.r.int, row.g.int, row.b.int>>
    ELSE <<0, 0, 0>>

RowKept(row) == RowHex(row) # <<>> /\ RowRgb(row) # <<0, 0, 0>>

ExpectedRecords ==
    LET kept == SelectSeq(sensor_rows.rows, RowKept)
    IN  [i \in 1..Len(kept) |-> <<RowHex(kept[i]), RowRgb(kept[i])>>]

HasBadField(row) == row.width = 4 /\ ~ AllOk(row)

\* C3: a Pro row whose R, G or B field is present but no integer does not
\* fail the run: its rgb becomes (0, 0, 0), the row is left out, and
\* extraction goes on with the rows after it.
C3_BadFieldRowSkipped ==
    ( /\ sensor_rows.schema = "pro"
      /\ extractions = 1
      /\ \E i \in 1..Len(sensor_rows.rows) : HasBadField(sensor_rows.rows[i]) )
    => /\ pc = "extracted"
       /\ exc = "none"
       /\ Records(swatches) = ExpectedRecords

\* C6: extraction appends a row exactly when its resolved hex is not empty
\* and its resolved rgb is not (0, 0, 0), in row order: N rows that all have
\* data give N records in row order, and no row with an empty HEX is kept.
C6_RowsWithDataInOrder ==
    pc = "extracted" =>
        /\ Records(swatches) = ExpectedRecords
        /\ (\A i \in 1..Len(sensor_rows.rows) : RowKept(sensor_rows.rows[i]))
              => Len(swatches) = Len(sensor_rows.rows)
        /\ \A i \in 1..Len(swatches) : swatches[i].hex_value # <<>>

\* a Mini export of two rows: the first has HEX "" and a non-zero RGB and is
\* left out, the second is kept without the space of its HEX field
C6_Witness ==
    /\ pc = "extracted"
    /\ sensor_rows.schema = "mini"
    /\ Len(sensor_rows.rows) = 2
    /\ sensor_rows.rows[1].hex.txt = <<>>
    /\ sensor_rows.rows[1].width = 4
    /\ RowRgb(sensor_rows.rows[1]) # <<0, 0, 0>>
    /\ Records(swatches) = << <<H_FFC700, RowRgb(sensor_rows.rows[2])>> >>

(***************************************************************************)
(* Properties of sorting, checked under SpecSort                           *)
(***************************************************************************)
\* the records in extraction order: every palette colour has data
InputRecords ==
    [i \in 1..Len(sensor_rows.rows) |->
        <<sensor_rows.rows[i].hex.txt, RowRgb(sensor_rows.rows[i])>>]

Perms(n) == { p \in [1..n -> 1..n] : \A i, j \in 1..n : p[i] = p[j] => i = j }

KeyOf(rec) == rgb_to_hsv(rec[2][1], rec[2][2], rec[2][3])[SortIndex(sort_type)]

SameKey(a, b) == ~ FracLess(KeyOf(a), KeyOf(b)) /\ ~ FracLess(KeyOf(b), KeyOf(a))

\* C7: with a sort key, sort_swatches leaves a permutation of the extracted
\* records in ascending order of the key in which records of equal key keep
\* their extraction order; without one it leaves the extraction order.
C7_SortStableAscending ==
    pc = "sorted" =>
        IF sort_type = "None" THEN Records(swatches) = InputRecords
        ELSE /\ Len(swatches) = Len(InputRecords)
             /\ \E p \in Perms(Len(InputRecords)) :
                   /\ \A k \in 1..Len(swatches) : Records(swatches)[k] = InputRecords[p[k]]
                   /\ \A k, l \in 1..Len(swatches) :
                         k < l =>
                            /\ ~ FracLess(KeyOf(Records(swatches)[l]), KeyOf(Records(swatches)[k]))
                            /\ SameKey(Records(swatches)[k], Records(swatches)[l])
                                  => p[k] < p[l]

\* a hue sort that moved records and met two different records of equal hue
C7_Witness ==
    /\ pc = "sorted"
    /\ sort_type = "hue"
    /\ Records(swatches) # InputRecords
    /\ \E k \in 1..(Len(swatches) - 1) :
          /\ swatches[k] # swatches[k + 1]
          /\ SameKey(Records(swatches)[k], Records(swatches)[k + 1])

(***************************************************************************)
(* Properties of re-ingestion, checked under SpecHtml                      *)
(***************************************************************************)
AfterExtraction == pc \in {"extracted", "sorted", "output", "exited"}

\* hex is '#' and six hex digits, and rgb the three bytes they encode
WellFormed(sw) ==
    /\ Len(sw.hex_value) = 7
    /\ sw.hex_value[1] = "#"
    /\ \A k \in 2..7 : IsHexChar(sw.hex_value[k])
    /\ sw.rgb_value = [c \in 1..3 |-> 16 * HexVal(sw.hex_value[2 * c])
                                      + HexVal(sw.hex_value[2 * c + 1])]

====
